---- MODULE Spec2Model ----
(***************************************************************************)
(* A model of src/app.py, the GlobalPartners order-analytics dashboard.    *)
(*                                                                         *)
(* The script is run top to bottom on every render (initial load or a      *)
(* control change).  It loads five gold tables through a memoised loader   *)
(* with a one-hour time-to-live, normalises the customer table, and then   *)
(* renders seven report sections.                                          *)
(*                                                                         *)
(*   Spec         the render sequence and the table cache (lines 16-37)    *)
(*   SpecIntel    the customer table: normalisation, top-N, gap view       *)
(*   SpecTrends   the location sales table: time buckets, location rollup  *)
(*   SpecLoyalty  the loyalty table: status mapping, lift percentages      *)
(*   SpecDiscount the discount section and the table loaded for it         *)
(*   SpecControls the renders of one page, started by control changes      *)
(***************************************************************************)
EXTENDS Integers, Sequences, FiniteSets, TLC

VARIABLES
    now,        \* the cache's clock, in seconds
    whVer,      \* the warehouse's current content (a version number)
    cache,      \* st.cache_data's entries: table -> [valid, at, ver]
    pc,         \* the position of the running render in the script
    loaded,     \* the render's data frames: table -> version, or NotLoaded
    queries,    \* warehouse queries issued by the running render, per table
    lastLoad,   \* how the last load_gold_data call was served
    cleaned,    \* how often the running render ran the normalisation loop
    sections,   \* the report sections the running render has rendered
    \* the customer table's part of the script (lines 21-28, 77-81, 164-323)
    df_intel,           \* the customer_intelligence frame, a sequence of rows
    ipc,                \* the script's position in this part
    top_n,              \* the slider's value
    df_top_customers,   \* line 81
    df_display,         \* the gap view's table, lines 316-323, if rendered
    \* the location sales table's part of the script (lines 349-511)
    df_trends,          \* the location_sales_trends frame, a sequence of rows
    tpc,                \* the script's position in this part
    time_grain,         \* the radio's value, line 357
    selected_locations, \* the multiselect's value, lines 361-365
    df_plot,            \* lines 370-378
    df_store_perf,      \* lines 415-431
    whale_store,        \* line 500
    \* the loyalty table's part of the script (lines 519-579)
    df_loyalty,         \* the loyalty_roi_analysis frame, a sequence of rows
    lpc,                \* the script's position in this part
    aov_diff,           \* line 529
    repeat_diff,        \* line 530
    \* the discount section's part of the script (lines 34, 628-688)
    df_discount,        \* the discount_effectiveness frame, a sequence of rows
    dpc,                \* the script's position in this part
    renders,            \* how often the script has run this part
    df_disc,            \* line 637, the frame the two charts draw
    aov_lift,           \* line 640, in 1/10000 of a percent
    disc_order_pct,     \* line 668, in 1/10000 of a percent
    disc_rev_pct,       \* line 669, in 1/10000 of a percent
    \* the page and its controls (lines 78, 357, 361)
    screen,             \* the sections the last finished render left on the page
    changed             \* the control whose change started the running render

cacheVars == <<now, whVer, cache, pc, loaded, queries, lastLoad, cleaned, sections>>
intelVars == <<df_intel, ipc, top_n, df_top_customers, df_display>>
trendVars ==
    <<df_trends, tpc, time_grain, selected_locations, df_plot, df_store_perf, whale_store>>
loyaltyVars == <<df_loyalty, lpc, aov_diff, repeat_diff>>
discountVars ==
    <<df_discount, dpc, renders, df_disc, aov_lift, disc_order_pct, disc_rev_pct>>
pageVars == <<screen, changed>>

vars == <<cacheVars, intelVars, trendVars, loyaltyVars, discountVars, pageVars>>

notCache == <<intelVars, trendVars, loyaltyVars, discountVars, pageVars>>
notIntel == <<cacheVars, trendVars, loyaltyVars, discountVars, pageVars>>
notTrends == <<cacheVars, intelVars, loyaltyVars, discountVars, pageVars>>
notLoyalty == <<cacheVars, intelVars, trendVars, discountVars, pageVars>>
notDiscount == <<cacheVars, intelVars, trendVars, loyaltyVars, pageVars>>

(***************************************************************************)
(* Bounds of the model.                                                    *)
(***************************************************************************)
MaxNow == 7300
MaxVer == 1
MaxRich == 2     \* rows of a customer table with mixed cell encodings
MaxRows == 6     \* rows of a customer table of plain numbers
MaxSlide == 2    \* slider positions explored above its minimum
MaxTrendRows == 2    \* rows of a location sales table
MaxDiscountRows == 2    \* rows of a discount table
MaxRenders == 2    \* runs of the discount section on one page

(***************************************************************************)
(* The cached table loader, lines 14-18, and the loads of lines 21-34.     *)
(***************************************************************************)
TTL == 3600

TableNames ==
    {"customer_intelligence", "customer_rolling_metrics",
     "location_sales_trends", "loyalty_roi_analysis", "discount_effectiveness"}

NotLoaded == -1

NoEntry == [valid |-> FALSE, at |-> 0, ver |-> 0]

\* The script's statements that matter to the render, in order.
Script ==
    << "load_intel", "clean", "load_rolling", "load_trends", "load_loyalty",
       "load_discount", "s1", "s2", "s3", "s4", "s5", "s6", "s7" >>

LoadTable(p) ==
    CASE p = "load_intel"    -> "customer_intelligence"
      [] p = "load_rolling"  -> "customer_rolling_metrics"
      [] p = "load_trends"   -> "location_sales_trends"
      [] p = "load_loyalty"  -> "loyalty_roi_analysis"
      [] p = "load_discount" -> "discount_effectiveness"

LoadPcs == {"load_intel", "load_rolling", "load_trends", "load_loyalty", "load_discount"}
SectionPcs == {"s1", "s2", "s3", "s4", "s5", "s6", "s7"}

IndexOf(p) == CHOOSE i \in 1..Len(Script) : Script[i] = p

NextPc(p) == IF IndexOf(p) = Len(Script) THEN "done" ELSE Script[IndexOf(p) + 1]

\* (a variant that still serves an entry at the instant it expires)
StaleFresh(e, t) == e.valid /\ t <= e.at + TTL
\* An entry is served while the clock is before its expiry, at + ttl.
Fresh(e, t) == e.valid /\ t < e.at + TTL

\* The rendering surface runs the script: on the first load and on every control change.
StartRender ==
    /\ pc = "idle"
    /\ pc' = Script[1]
    /\ UNCHANGED <<now, whVer, cache, loaded, queries, lastLoad, cleaned, sections>>
    /\ UNCHANGED notCache

\* load_gold_data(table), served from the cache.
LoadHit(p, t) ==
    /\ Fresh(cache[t], now)
    /\ loaded' = [loaded EXCEPT ![t] = cache[t].ver]
    /\ pc' = NextPc(p)
    /\ lastLoad' = "hit"
    /\ UNCHANGED <<cache, queries>>

\* (a variant that catches a failed query and carries on with the render)
LoadMissSwallow(p, t) ==
    /\ ~Fresh(cache[t], now)
    /\ \E ok \in BOOLEAN :
          /\ queries' = [queries EXCEPT ![t] = @ + 1]
          /\ IF ok
             THEN /\ cache' = [cache EXCEPT ![t] = [valid |-> TRUE, at |-> now, ver |-> whVer]]
                  /\ loaded' = [loaded EXCEPT ![t] = whVer]
                  /\ lastLoad' = IF cache[t].valid THEN "refresh" ELSE "first"
             ELSE /\ cache' = [cache EXCEPT ![t] = NoEntry]
                  /\ loaded' = loaded
                  /\ lastLoad' = "fail"
          /\ pc' = NextPc(p)

\* load_gold_data(table), not served from the cache: one query, which the
\* warehouse answers or fails; a failure is raised through the script.
LoadMiss(p, t) ==
    /\ ~Fresh(cache[t], now)
    /\ \E ok \in BOOLEAN :
          /\ queries' = [queries EXCEPT ![t] = @ + 1]
          /\ IF ok
             THEN /\ cache' = [cache EXCEPT ![t] = [valid |-> TRUE, at |-> now, ver |-> whVer]]
                  /\ loaded' = [loaded EXCEPT ![t] = whVer]
                  /\ pc' = NextPc(p)
                  /\ lastLoad' = IF cache[t].valid THEN "refresh" ELSE "first"
             ELSE /\ cache' = [cache EXCEPT ![t] = NoEntry]
                  /\ loaded' = loaded
                  /\ pc' = "failed"
                  /\ lastLoad' = "fail"

Load ==
    /\ pc \in LoadPcs
    /\ \/ LoadHit(pc, LoadTable(pc))
       \/ LoadMiss(pc, LoadTable(pc))
    /\ UNCHANGED <<now, whVer, cleaned, sections>>
    /\ UNCHANGED notCache

\* Lines 25-28: the normalisation loop over numeric_cols.
Clean ==
    /\ pc = "clean"
    /\ cleaned' = cleaned + 1
    /\ pc' = NextPc(pc)
    /\ UNCHANGED <<now, whVer, cache, loaded, queries, lastLoad, sections>>
    /\ UNCHANGED notCache

\* One report section, from its st.header on (lines 37, 150, 245, 336, 411, 517, 629).
Section ==
    /\ pc \in SectionPcs
    /\ sections' = sections \cup {pc}
    /\ pc' = NextPc(pc)
    /\ UNCHANGED <<now, whVer, cache, loaded, queries, lastLoad, cleaned>>
    /\ UNCHANGED notCache

\* The script has run to its end, or an exception has ended it: the page
\* keeps what the run has drawn.
Finish ==
    /\ pc \in {"done", "failed"}
    /\ pc' = "idle"
    /\ loaded' = [t \in TableNames |-> NotLoaded]
    /\ queries' = [t \in TableNames |-> 0]
    /\ cleaned' = 0
    /\ sections' = {}
    /\ lastLoad' = "none"
    /\ screen' = sections
    /\ changed' = "none"
    /\ UNCHANGED <<now, whVer, cache>>
    /\ UNCHANGED <<intelVars, trendVars, loyaltyVars, discountVars>>

\* Time passes between renders; a render is short against the half hours
\* the clock moves by.
Deltas == {1799, 1800, 1801}

Advance ==
    /\ pc = "idle"
    /\ \E d \in Deltas :
          /\ now + d <= MaxNow
          /\ now' = now + d
    /\ UNCHANGED <<whVer, cache, pc, loaded, queries, lastLoad, cleaned, sections>>
    /\ UNCHANGED notCache

\* The upstream job rewrites the gold tables.
WarehouseRefresh ==
    /\ whVer < MaxVer
    /\ whVer' = whVer + 1
    /\ UNCHANGED <<now, cache, pc, loaded, queries, lastLoad, cleaned, sections>>
    /\ UNCHANGED notCache

(***************************************************************************)
(* Numbers.  A pandas float64 is finite, infinite or NaN; a finite one is  *)
(* kept exactly, as the fraction n/d with d > 0.                           *)
(***************************************************************************)
Fin(k) == [f |-> "fin", n |-> k, d |-> 1]
Frac(a, b) == [f |-> "fin", n |-> a, d |-> b]
Inf == [f |-> "inf", n |-> 0, d |-> 1]
NegInf == [f |-> "ninf", n |-> 0, d |-> 1]
NaN == [f |-> "nan", n |-> 0, d |-> 1]

IsFinite(x) == x.f = "fin"
IsNaN(x) == x.f = "nan"

\* x < y on floats that are not NaN.
FloatLess(x, y) ==
    CASE x.f = "ninf" -> y.f # "ninf"
      [] x.f = "inf"  -> FALSE
      [] OTHER        -> \/ y.f = "inf"
                         \/ y.f = "fin" /\ x.n * y.d < y.n * x.d

FloatEq(x, y) ==
    /\ x.f = y.f
    /\ x.f = "fin" => x.n * y.d = y.n * x.d

(***************************************************************************)
(* The customer table.  A cell of a numeric column comes from the          *)
(* warehouse client as a float, as text or as a null.                      *)
(***************************************************************************)
FloatCell(x) == [k |-> "float", x |-> x, s |-> <<>>]
TextCell(s) == [k |-> "text", x |-> NaN, s |-> s]
NullCell == [k |-> "null", x |-> NaN, s |-> <<>>]

DigitChars == {"0", "1", "2"}
DigitVal(c) == CASE c = "0" -> 0 [] c = "1" -> 1 [] c = "2" -> 2

RECURSIVE DecimalValue(_)
DecimalValue(s) ==
    IF s = <<>> THEN 0
    ELSE 10 * DecimalValue(SubSeq(s, 1, Len(s) - 1)) + DigitVal(s[Len(s)])

\* What pandas' float parser makes of a text: digits are a number, "inf" is
\* the infinite float, anything else is not a number.
ParseFloat(s) ==
    IF s # <<>> /\ \A i \in 1..Len(s) : s[i] \in DigitChars THEN Fin(DecimalValue(s))
    ELSE IF s = <<"i", "n", "f">> THEN Inf
    ELSE NaN

\* pd.to_numeric(..., errors='coerce') on one cell.
ToNumeric(c) ==
    CASE c.k = "float" -> c.x
      [] c.k = "text"  -> ParseFloat(c.s)
      [] c.k = "null"  -> NaN

\* .fillna(0) on one value.
FillNa(x) == IF IsNaN(x) THEN Fin(0) ELSE x

\* Line 28 on one cell: pd.to_numeric(df_intel[col], errors='coerce').fillna(0).
NormalizeCell(c) == FloatCell(FillNa(ToNumeric(c)))

\* Lines 25-28, on the numeric columns the model carries.
Normalize(df) ==
    [i \in 1..Len(df) |->
        [df[i] EXCEPT !.current_clv = NormalizeCell(@), !.recency = NormalizeCell(@)]]

ClvCells ==
    {FloatCell(Fin(2)), FloatCell(Inf), TextCell(<<"1", "2">>), TextCell(<<"1", "x">>),
     TextCell(<<"i", "n", "f">>), NullCell}
RecencyCells == {FloatCell(Fin(1)), TextCell(<<"2">>)}
TierSegments ==
    {<<"High", "Churn Risk">>, <<"High", "VIP">>, <<"Low", "Churn Risk">>}

RichRows ==
    {[current_clv |-> c, recency |-> r, clv_tier |-> ts[1], segment |-> ts[2]] :
        c \in ClvCells, r \in RecencyCells, ts \in TierSegments}
PlainRows ==
    {[current_clv |-> FloatCell(Fin(k)), recency |-> FloatCell(Fin(1)),
      clv_tier |-> "Medium", segment |-> "Standard"] : k \in 0..2}

\* user_id is the table's key: row i is customer i.
WithIds(rows) ==
    [i \in 1..Len(rows) |->
        [user_id |-> i, current_clv |-> rows[i].current_clv, recency |-> rows[i].recency,
         clv_tier |-> rows[i].clv_tier, segment |-> rows[i].segment]]

IntelTables ==
    {WithIds(rows) : rows \in UNION {[1..n -> RichRows] : n \in 0..MaxRich}}
    \cup
    {WithIds(rows) : rows \in UNION {[1..n -> PlainRows] : n \in (MaxRich + 1)..MaxRows}}

NoTable == [shown |-> FALSE, rows |-> <<>>]
NoStore == [restaurant_id |-> 0, avg_order_value |-> NaN]

\* The slider of line 78.
SliderMin == 5
SliderMax == 100
SliderDefault == 20
SliderValues == (SliderMin..(SliderMin + MaxSlide)) \cup {SliderDefault, SliderMax}

\* Where the keyed row p goes into a sequence sorted by key, behind its equals.
RECURSIVE InsertSorted(_, _, _)
InsertSorted(p, sorted, ascending) ==
    IF sorted = <<>> THEN <<p>>
    ELSE IF (IF ascending THEN FloatLess(p[1], sorted[1][1]) ELSE FloatLess(sorted[1][1], p[1]))
         THEN <<p>> \o sorted
    ELSE <<sorted[1]>> \o InsertSorted(p, Tail(sorted), ascending)

RECURSIVE SortPairs(_, _)
SortPairs(pairs, ascending) ==
    IF pairs = <<>> THEN <<>>
    ELSE InsertSorted(pairs[Len(pairs)],
                      SortPairs(SubSeq(pairs, 1, Len(pairs) - 1), ascending), ascending)

\* DataFrame.sort_values(col, ascending=...), keys being the column's values:
\* rows with equal keys keep the frame's order.
SortValues(df, keys, ascending) ==
    LET sorted == SortPairs([i \in 1..Len(df) |-> <<keys[i], df[i]>>], ascending)
    IN  [i \in 1..Len(df) |-> sorted[i][2]]

ClvOf(df) == [i \in 1..Len(df) |-> df[i].current_clv.x]
RecencyOf(df) == [i \in 1..Len(df) |-> df[i].recency.x]

\* DataFrame.head(n).
Head_(df, n) == SubSeq(df, 1, IF n < Len(df) THEN n ELSE Len(df))

\* (a variant that ranks the lowest spenders first)
BottomCustomers(df, n) == Head_(SortValues(df, ClvOf(df), TRUE), n)
\* Line 81: df_intel.sort_values("current_clv", ascending=False).head(top_n).
TopCustomers(df, n) == Head_(SortValues(df, ClvOf(df), FALSE), n)

IsGap(r) == r.clv_tier = "High" /\ r.segment = "Churn Risk"

\* Lines 309-312: df_gap.
GapRows(df) == SelectSeq(df, IsGap)

\* Lines 25-28.
NormalizeIntel ==
    /\ ipc = "clean"
    /\ df_intel' = Normalize(df_intel)
    /\ ipc' = "s1"
    /\ UNCHANGED <<top_n, df_top_customers, df_display>>
    /\ UNCHANGED notIntel

\* Lines 78-81: the slider's value and the top customers by current_clv.
TopN ==
    /\ ipc = "s1"
    /\ \E n \in SliderValues :
          /\ top_n' = n
          /\ df_top_customers' = TopCustomers(df_intel, n)
    /\ ipc' = "s2"
    /\ UNCHANGED <<df_intel, df_display>>
    /\ UNCHANGED notIntel

\* Lines 168-238: the segment counts; churn_risk / total_customers of line
\* 237 raises on an empty table.
Segments ==
    /\ ipc = "s2"
    /\ ipc' = IF Len(df_intel) = 0 THEN "failed" ELSE "s3"
    /\ UNCHANGED <<df_intel, top_n, df_top_customers, df_display>>
    /\ UNCHANGED notIntel

\* Lines 316-320: the gap's rows, by recency descending.
GapTable(df) == SortValues(GapRows(df), RecencyOf(GapRows(df)), FALSE)

\* (a variant that reads the gap's first row before looking whether there is one)
GapViewFirstRow ==
    /\ ipc = "s3"
    /\ IF GapRows(df_intel) = <<>>
       THEN ipc' = "failed" /\ df_display' = NoTable
       ELSE /\ df_display' = [shown |-> TRUE, rows |-> GapTable(df_intel)]
            /\ ipc' = "s4"
    /\ UNCHANGED <<df_intel, top_n, df_top_customers>>
    /\ UNCHANGED notIntel

\* Lines 309-323: the gap view, a table of the rows in the High tier and the
\* Churn Risk segment, by recency, rendered only when there is such a row.
GapView ==
    /\ ipc = "s3"
    /\ df_display' =
          IF GapRows(df_intel) # <<>>
          THEN [shown |-> TRUE, rows |-> GapTable(df_intel)]
          ELSE NoTable
    /\ ipc' = "s4"
    /\ UNCHANGED <<df_intel, top_n, df_top_customers>>
    /\ UNCHANGED notIntel

(***************************************************************************)
(* Float arithmetic on finite numbers and NaN (numpy float64: a division   *)
(* by zero is infinite, or NaN for 0/0, and raises nothing).               *)
(***************************************************************************)
FloatAdd(x, y) ==
    IF IsNaN(x) \/ IsNaN(y) THEN NaN ELSE Frac(x.n * y.d + y.n * x.d, x.d * y.d)

FloatSub(x, y) ==
    IF IsNaN(x) \/ IsNaN(y) THEN NaN ELSE Frac(x.n * y.d - y.n * x.d, x.d * y.d)

\* x * y, y finite.
FloatMul(x, y) ==
    IF IsNaN(x) \/ IsNaN(y) THEN NaN
    ELSE IF x.f = "fin" THEN Frac(x.n * y.n, x.d * y.d)
    ELSE IF y.n = 0 THEN NaN
    ELSE IF (x.f = "inf") = (y.n > 0) THEN Inf ELSE NegInf

FloatDiv(x, y) ==
    IF IsNaN(x) \/ IsNaN(y) THEN NaN
    ELSE IF y.n = 0 THEN (IF x.n = 0 THEN NaN ELSE IF x.n > 0 THEN Inf ELSE NegInf)
    ELSE IF y.n > 0 THEN Frac(x.n * y.d, x.d * y.n)
    ELSE Frac(-(x.n * y.d), -(x.d * y.n))

(***************************************************************************)
(* The location sales table: one row per restaurant, date and category.    *)
(* A date is its day of 2024 (1 is Monday 1 January); day 0 is Sunday 31   *)
(* December 2023.                                                          *)
(***************************************************************************)
Restaurants == {1, 2}
Dates == {28, 29, 32}      \* Sun 28 Jan, Mon 29 Jan, Thu 1 Feb
Categories == {"Breakfast", "Salad"}
\* daily_revenue as the client returns it, and daily_order_count.
TrendValues ==
    {<<FloatCell(Fin(1)), 1>>, <<TextCell(<<"2">>), 1>>, <<TextCell(<<"2">>), 0>>,
     <<NullCell, 0>>}

TrendKeys == Restaurants \X Dates \X Categories
KeyRank(k) ==
    (k[1] * 100 + k[2]) * 2 + (IF k[3] = "Breakfast" THEN 0 ELSE 1)

TrendRow(k, rev, cnt) ==
    [restaurant_id |-> k[1], order_date |-> k[2], item_category |-> k[3],
     daily_revenue |-> rev, daily_order_count |-> cnt]

\* The tables of n rows, no key twice, in the order of their keys.
RECURSIVE TrendTablesOf(_, _)
TrendTablesOf(n, above) ==
    IF n = 0 THEN {<<>>}
    ELSE UNION {{<<TrendRow(k, v[1], v[2])>> \o rest :
                    v \in TrendValues, rest \in TrendTablesOf(n - 1, KeyRank(k))} :
                 k \in {q \in TrendKeys : KeyRank(q) > above}}

TrendTables == UNION {TrendTablesOf(n, 0) : n \in 0..MaxTrendRows}

\* The elements of a set of integers, ascending.
RECURSIVE Ascending(_)
Ascending(S) ==
    IF S = {} THEN <<>>
    ELSE LET m == CHOOSE x \in S : \A y \in S : x <= y
         IN  <<m>> \o Ascending(S \ {m})

Least(S) == CHOOSE x \in S : \A y \in S : x <= y
Greatest(S) == CHOOSE x \in S : \A y \in S : x >= y

\* Lines 350-351: pd.to_datetime on the dates, pd.to_numeric(errors='coerce')
\* on the revenue, which is left NaN where it is no number.
PrepareTrends(df) ==
    [i \in 1..Len(df) |-> [df[i] EXCEPT !.daily_revenue = ToNumeric(@)]]

\* Series.sum(): NaN is skipped, and the sum of nothing is 0.
RECURSIVE SumSkipNa(_)
SumSkipNa(xs) ==
    IF xs = <<>> THEN Fin(0)
    ELSE IF IsNaN(xs[1]) THEN SumSkipNa(Tail(xs))
    ELSE FloatAdd(xs[1], SumSkipNa(Tail(xs)))

CountNotNa(xs) == Cardinality({i \in 1..Len(xs) : ~IsNaN(xs[i])})

\* Series.mean(): NaN is skipped, and the mean of nothing is NaN.
MeanSkipNa(xs) == FloatDiv(SumSkipNa(xs), Fin(CountNotNa(xs)))

RevenueOf(df) == [i \in 1..Len(df) |-> df[i].daily_revenue]
OrdersOf(df) == [i \in 1..Len(df) |-> Fin(df[i].daily_order_count)]
DatesOf(df) == {df[i].order_date : i \in 1..Len(df)}
RestaurantsOf(df) == {df[i].restaurant_id : i \in 1..Len(df)}

\* The days a frequency is anchored on: 'W' is W-SUN, the Sundays; 'M' is
\* the month ends (31 Dec, 31 Jan, 29 Feb, 31 Mar).
Anchors(freq) ==
    IF freq = "W" THEN {7 * k : k \in 0..13} ELSE {0, 31, 60, 91}

\* Timestamp - offset and Timestamp + offset on an anchored offset: the
\* anchor strictly before, the anchor strictly after.
RollBack(freq, d) == Greatest({a \in Anchors(freq) : a < d})
RollForward(freq, d) == Least({a \in Anchors(freq) : a > d})

\* (a variant whose bins start at the first date present and run a fixed
\* number of days each)
BinnerFromFirstDate(freq, dates) ==
    LET width == IF freq = "W" THEN 7 ELSE 31
        first == Least(dates) - 1
    IN  {first + k * width : k \in 0..4}
\* pd.Grouper(key='order_date', freq=...): the bin edges run over the
\* anchors from the one before the first date to the one after the last.
Binner(freq, dates) ==
    LET first == RollBack(freq, Least(dates))
        last == RollForward(freq, Greatest(dates))
    IN  {a \in Anchors(freq) : first <= a /\ a <= last}

\* Bins are closed and labelled on the right: a date belongs to the first
\* edge that is not before it.
BinLabel(freq, dates, d) == Least({e \in Binner(freq, dates) : e >= d})

\* Lines 370-378: the key a row is grouped under.
Bucket(grain, dates, d) ==
    CASE grain = "Weekly"  -> BinLabel("W", dates, d)
      [] grain = "Monthly" -> BinLabel("M", dates, d)
      [] grain = "Daily"   -> d

\* (a variant that keeps a group's largest revenue)
GroupMax(xs) ==
    IF \A i \in 1..Len(xs) : IsNaN(xs[i]) THEN Fin(0)
    ELSE LET i == CHOOSE j \in 1..Len(xs) :
                    ~IsNaN(xs[j]) /\ \A q \in 1..Len(xs) : IsNaN(xs[q]) \/ ~FloatLess(xs[j], xs[q])
         IN  xs[i]
\* ['daily_revenue'].sum() of one group.
GroupSum(xs) == SumSkipNa(xs)

\* Line 368: df_trends[df_trends['restaurant_id'].isin(selected_locations)].
FilterLocations(df, selected) ==
    SelectSeq(df, LAMBDA r : r.restaurant_id \in selected)

\* Lines 370-378: groupby([bucket, 'restaurant_id'])['daily_revenue'].sum()
\* .reset_index(): one row per bucket and restaurant present, in key order.
PlotFrame(df, grain) ==
    LET dates == DatesOf(df)
        bucketOf == [d \in dates |-> Bucket(grain, dates, d)]
        keyOf(r) == bucketOf[r.order_date] * 100 + r.restaurant_id
        keys == Ascending({keyOf(df[i]) : i \in 1..Len(df)})
    IN  [g \in 1..Len(keys) |->
            [order_date |-> keys[g] \div 100,
             restaurant_id |-> keys[g] % 100,
             daily_revenue |->
                GroupSum(RevenueOf(SelectSeq(df, LAMBDA r : keyOf(r) = keys[g])))]]

\* Lines 415-428: one row per restaurant.
StorePerfRow(df, rid) ==
    LET rows == SelectSeq(df, LAMBDA r : r.restaurant_id = rid)
        total == SumSkipNa(RevenueOf(rows))
        orders == MeanSkipNa(OrdersOf(rows))
        days == Cardinality(DatesOf(rows))
    IN  [restaurant_id |-> rid,
         total_revenue |-> total,
         avg_daily_revenue |-> MeanSkipNa(RevenueOf(rows)),
         avg_daily_orders |-> orders,
         days_active |-> days,
         avg_order_value |-> FloatDiv(total, FloatMul(orders, Fin(days)))]

\* Lines 415-431: the rollup, ranked by total revenue.
StorePerf(df) ==
    LET ids == Ascending(RestaurantsOf(df))
        perf == [i \in 1..Len(ids) |-> StorePerfRow(df, ids[i])]
    IN  SortValues(perf, [i \in 1..Len(perf) |-> perf[i].total_revenue], FALSE)

\* Series.idxmax(): the first row holding the largest value that is not NaN.
IdxMax(xs) ==
    CHOOSE i \in 1..Len(xs) :
        /\ ~IsNaN(xs[i])
        /\ \A j \in 1..Len(xs) : IsNaN(xs[j]) \/ ~FloatLess(xs[i], xs[j])
        /\ \A j \in 1..(i - 1) : IsNaN(xs[j]) \/ FloatLess(xs[j], xs[i])

AovOf(perf) == [i \in 1..Len(perf) |-> perf[i].avg_order_value]

\* Lines 349-351.
Prepare ==
    /\ tpc = "prepare"
    /\ df_trends' = PrepareTrends(df_trends)
    /\ tpc' = "controls"
    /\ UNCHANGED <<time_grain, selected_locations, df_plot, df_store_perf, whale_store>>
    /\ UNCHANGED notTrends

\* Lines 353-391: the radio and the multiselect (its options the restaurants
\* of the table), the filter and the revenue per bucket and restaurant.
Plot ==
    /\ tpc = "controls"
    /\ \E grain \in {"Daily", "Weekly", "Monthly"} :
       \E selected \in SUBSET RestaurantsOf(df_trends) :
          /\ time_grain' = grain
          /\ selected_locations' = selected
          /\ df_plot' = PlotFrame(FilterLocations(df_trends, selected), grain)
    /\ tpc' = "s5"
    /\ UNCHANGED <<df_trends, df_store_perf, whale_store>>
    /\ UNCHANGED notTrends

\* Lines 415-511, the Top-Performing Locations section: the rollup, then the
\* reads of its rows.  best_store = df_store_perf.iloc[0] raises on a table
\* without rows and second_location = df_store_perf.iloc[1] with a single
\* restaurant; the max-AOV store is read through idxmax, which has no row to
\* name when every avg_order_value is NaN.
Locations ==
    /\ tpc = "s5"
    /\ df_store_perf' = StorePerf(df_trends)
    /\ IF \/ Len(df_store_perf') < 2
          \/ \A i \in 1..Len(df_store_perf') : IsNaN(df_store_perf'[i].avg_order_value)
       THEN /\ tpc' = "failed"
            /\ whale_store' = whale_store
       ELSE /\ tpc' = "s6"
            /\ whale_store' = df_store_perf'[IdxMax(AovOf(df_store_perf'))]
    /\ UNCHANGED <<df_trends, time_grain, selected_locations, df_plot>>
    /\ UNCHANGED notTrends

(***************************************************************************)
(* The loyalty table: one row per loyalty status.  is_loyalty comes as a   *)
(* boolean, as text or as an integer.                                      *)
(***************************************************************************)
BoolCell(b) == [k |-> "bool", b |-> b, s |-> "", n |-> 0]
StrCell(s) == [k |-> "text", b |-> FALSE, s |-> s, n |-> 0]
IntCell(n) == [k |-> "int", b |-> FALSE, s |-> "", n |-> n]

\* .astype(str) on one value.
AsStr(c) ==
    CASE c.k = "bool" -> IF c.b THEN "True" ELSE "False"
      [] c.k = "text" -> c.s
      [] c.k = "int"  -> IF c.n = 1 THEN "1" ELSE "0"

\* (a variant that leaves the letter case as it is)
KeepCase(s) == s

\* .str.lower() on the texts the table can hold.
Lower(s) ==
    CASE s \in {"True", "TRUE", "true"}    -> "true"
      [] s \in {"False", "FALSE", "false"} -> "false"
      [] OTHER                             -> s

\* Line 522: the map over the lowered text; what it does not name is NaN.
StatusOf(s) ==
    CASE s \in {"true", "1"}  -> "Loyalty Member"
      [] s \in {"false", "0"} -> "Non-Member"
      [] OTHER                -> "NaN"

MemberCells == {BoolCell(TRUE), StrCell("true"), StrCell("TRUE"), IntCell(1)}
NonMemberCells == {BoolCell(FALSE), StrCell("false"), StrCell("False"), IntCell(0)}
\* An encoding the script's comment does not list.
OtherCells == {StrCell("yes")}
OrderValues == {0, 45, 52}
RepeatRates == {0, 1, 2}

LoyaltyRow(c, aov, rate) ==
    [is_loyalty |-> c, Status |-> "", avg_order_value |-> Fin(aov),
     repeat_order_rate |-> Fin(rate)]

\* Two rows, each of any status and encoding.
LoyaltyTables ==
    LET rows == {LoyaltyRow(c, a, r) :
                    c \in MemberCells \cup NonMemberCells \cup OtherCells,
                    a \in OrderValues, r \in RepeatRates}
    IN  {<<x, y>> : x \in rows, y \in rows}

\* Lines 521-522.
WithStatus(df) ==
    [i \in 1..Len(df) |->
        [df[i] EXCEPT !.is_loyalty = StrCell(Lower(AsStr(@))),
                      !.Status = StatusOf(Lower(AsStr(df[i].is_loyalty)))]]

RowsOfStatus(df, status) == SelectSeq(df, LAMBDA r : r.Status = status)

\* Lines 529-530: ((a - b) / b) * 100.
Lift(a, b) == FloatMul(FloatDiv(FloatSub(a, b), b), Fin(100))

\* Lines 519-522.
MapStatus ==
    /\ lpc = "prepare"
    /\ df_loyalty' = WithStatus(df_loyalty)
    /\ lpc' = "metrics"
    /\ UNCHANGED <<aov_diff, repeat_diff>>
    /\ UNCHANGED notLoyalty

\* Lines 524-579: the first row of each status (.iloc[0] raises when there
\* is none), the two lifts, the metrics and the insight that render them.
Metrics ==
    /\ lpc = "metrics"
    /\ LET members == RowsOfStatus(df_loyalty, "Loyalty Member")
           others == RowsOfStatus(df_loyalty, "Non-Member")
       IN  IF members = <<>> \/ others = <<>>
           THEN /\ lpc' = "failed"
                /\ UNCHANGED <<aov_diff, repeat_diff>>
           ELSE /\ aov_diff' = Lift(members[1].avg_order_value, others[1].avg_order_value)
                /\ repeat_diff' =
                      Lift(members[1].repeat_order_rate, others[1].repeat_order_rate)
                /\ lpc' = "rendered"
    /\ UNCHANGED df_loyalty
    /\ UNCHANGED notLoyalty

(***************************************************************************)
(* The discount section, lines 628-688, and the load of line 34.  Money is *)
(* kept in cents.  A percentage is kept in 1/10000 of a percent, cut off   *)
(* after the fourth decimal; the script's float64 results differ from the  *)
(* exact quotients far below that digit.                                   *)
(***************************************************************************)
Cents(dollars, cents) == dollars * 100 + cents

DiscountStatuses == {"Discounted", "Full Price"}
DiscountRows ==
    [status : DiscountStatuses, order_count : {0, 100, 9150},
     total_revenue : {0, Cents(4695684, 17)}, avg_order_value : {Cents(52, 83), Cents(113, 87)}]

RECURSIVE DiscountTablesOf(_)
DiscountTablesOf(n) ==
    IF n = 0
    THEN {<<>>}
    ELSE LET shorter == DiscountTablesOf(n - 1)
         IN  shorter \cup {Append(t, r) : t \in {u \in shorter : Len(u) = n - 1},
                                          r \in DiscountRows}

\* Line 34: what the warehouse may hold.
DiscountTables == DiscountTablesOf(MaxDiscountRows)

\* Lines 631-637: discount_data, as the frame's rows.
DiscFrame ==
    << [Status |-> "Discounted", OrderCount |-> 9150,
        TotalRevenue |-> Cents(4695684, 17), AOV |-> Cents(113, 87)],
       [Status |-> "Full Price", OrderCount |-> 122178,
        TotalRevenue |-> Cents(13343599, 60), AOV |-> Cents(52, 83)] >>

\* a + b against the divisor m, for a, b < m: the carry and the rest.
AddMod(a, b, m) == IF a >= m - b THEN [q |-> 1, r |-> a - (m - b)] ELSE [q |-> 0, r |-> a + b]

\* 10 * r against the divisor m, for r < m: the next digit and the rest.
TimesTen(r, m) ==
    LET x2 == AddMod(r, r, m)
        x4 == AddMod(x2.r, x2.r, m)
        x8 == AddMod(x4.r, x4.r, m)
        x10 == AddMod(x8.r, x2.r, m)
    IN  [q |-> 4 * x2.q + 2 * x4.q + x8.q + x2.q + x10.q, r |-> x10.r]

\* k more decimal digits of a quotient, appended to q.
RECURSIVE Expand(_, _, _, _)
Expand(q, r, m, k) ==
    IF k = 0
    THEN q
    ELSE LET t == TimesTen(r, m) IN Expand(10 * q + t.q, t.r, m, k - 1)

\* (n / m) * 100.
Percent(n, m) == Expand(n \div m, n % m, m, 6)

RECURSIVE SumInts(_)
SumInts(xs) == IF xs = <<>> THEN 0 ELSE Head(xs) + SumInts(Tail(xs))

\* Line 640.
AovLift == Percent(Cents(113, 87) - Cents(52, 83), Cents(52, 83))
\* Lines 665-666.
TotalOrders(df) == SumInts([i \in 1..Len(df) |-> df[i].OrderCount])
TotalRev(df) == SumInts([i \in 1..Len(df) |-> df[i].TotalRevenue])
\* Line 668.
DiscOrderPct(df) == Percent(9150, TotalOrders(df))
\* (a variant that takes the share against the full-price revenue)
DiscRevPctOfFullPrice(df) == Percent(Cents(4695684, 0), df[2].TotalRevenue)
\* Line 669.
DiscRevPct(df) == Percent(Cents(4695684, 0), TotalRev(df))

\* Line 34: load_gold_data("discount_effectiveness").
LoadDiscount ==
    /\ dpc = "load"
    /\ df_discount' \in DiscountTables
    /\ dpc' = "s7"
    /\ UNCHANGED <<renders, df_disc, aov_lift, disc_order_pct, disc_rev_pct>>
    /\ UNCHANGED notDiscount

\* (a variant that takes the discounted order count from the loaded table)
DiscountSectionFromTable ==
    /\ dpc = "s7"
    /\ df_disc' = DiscFrame
    /\ aov_lift' = AovLift
    /\ disc_order_pct' =
          IF df_discount = <<>>
          THEN DiscOrderPct(df_disc')
          ELSE Percent(df_discount[1].order_count, TotalOrders(df_disc'))
    /\ disc_rev_pct' = DiscRevPct(df_disc')
    /\ renders' = renders + 1
    /\ dpc' = "done"
    /\ UNCHANGED df_discount
    /\ UNCHANGED notDiscount

\* Lines 628-688: the frame, the lift, the two charts, the shares, the
\* three metrics and the insight text.
DiscountSection ==
    /\ dpc = "s7"
    /\ df_disc' = DiscFrame
    /\ aov_lift' = AovLift
    /\ disc_order_pct' = DiscOrderPct(df_disc')
    /\ disc_rev_pct' = DiscRevPct(df_disc')
    /\ renders' = renders + 1
    /\ dpc' = "done"
    /\ UNCHANGED df_discount
    /\ UNCHANGED notDiscount

\* The next render of the page: the script starts with no frame loaded;
\* what the last render drew stays on the page until it is drawn again.
RenderAgain ==
    /\ dpc = "done"
    /\ renders < MaxRenders
    /\ dpc' = "load"
    /\ df_discount' = <<>>
    /\ UNCHANGED <<renders, df_disc, aov_lift, disc_order_pct, disc_rev_pct>>
    /\ UNCHANGED notDiscount

(***************************************************************************)
(* The controls, lines 78, 357 and 361-365.  A control is on the page once *)
(* its section has been drawn; a change of its value makes the rendering   *)
(* surface run the script again, from its first line.                      *)
(***************************************************************************)
Grains == {"Daily", "Weekly", "Monthly"}

\* Line 78: the slider of the CLV section.
ChangeTopN ==
    /\ pc = "idle"
    /\ "s1" \in screen
    /\ \E v \in SliderValues \ {top_n} : top_n' = v
    /\ changed' = "top_n"
    /\ pc' = Script[1]
    /\ UNCHANGED <<now, whVer, cache, loaded, queries, lastLoad, cleaned, sections>>
    /\ UNCHANGED <<df_intel, ipc, df_top_customers, df_display>>
    /\ UNCHANGED <<trendVars, loyaltyVars, discountVars, screen>>

\* (a variant that resumes the script at the section that reads the radio)
ChangeGrainFromSection ==
    /\ pc = "idle"
    /\ "s4" \in screen
    /\ \E g \in Grains \ {time_grain} : time_grain' = g
    /\ changed' = "time_grain"
    /\ pc' = "s4"
    /\ UNCHANGED <<now, whVer, cache, loaded, queries, lastLoad, cleaned, sections>>
    /\ UNCHANGED <<df_trends, tpc, selected_locations, df_plot, df_store_perf, whale_store>>
    /\ UNCHANGED <<intelVars, loyaltyVars, discountVars, screen>>

\* Line 357: the radio of the sales trends section.
ChangeGrain ==
    /\ pc = "idle"
    /\ "s4" \in screen
    /\ \E g \in Grains \ {time_grain} : time_grain' = g
    /\ changed' = "time_grain"
    /\ pc' = Script[1]
    /\ UNCHANGED <<now, whVer, cache, loaded, queries, lastLoad, cleaned, sections>>
    /\ UNCHANGED <<df_trends, tpc, selected_locations, df_plot, df_store_perf, whale_store>>
    /\ UNCHANGED <<intelVars, loyaltyVars, discountVars, screen>>

\* Lines 361-365: the multiselect of the sales trends section.
ChangeLocations ==
    /\ pc = "idle"
    /\ "s4" \in screen
    /\ \E sel \in (SUBSET Restaurants) \ {selected_locations} : selected_locations' = sel
    /\ changed' = "selected_locations"
    /\ pc' = Script[1]
    /\ UNCHANGED <<now, whVer, cache, loaded, queries, lastLoad, cleaned, sections>>
    /\ UNCHANGED <<df_trends, tpc, time_grain, df_plot, df_store_perf, whale_store>>
    /\ UNCHANGED <<intelVars, loyaltyVars, discountVars, screen>>

(***************************************************************************)
(* The specifications.  Spec runs whole renders against the cache, the     *)
(* tables' contents abstracted to a version; each of the others runs     *)
(* one part of the script on every table of a bounded family.              *)
(***************************************************************************)
EmptyCache == [t \in TableNames |-> NoEntry]
NothingLoaded == [t \in TableNames |-> NotLoaded]
NoQueries == [t \in TableNames |-> 0]

Init ==
    /\ now = 0
    /\ whVer = 0
    /\ cache = EmptyCache
    /\ pc = "idle"
    /\ loaded = NothingLoaded
    /\ queries = NoQueries
    /\ lastLoad = "none"
    /\ cleaned = 0
    /\ sections = {}
    /\ df_intel = <<>>
    /\ ipc = "off"
    /\ top_n = SliderDefault
    /\ df_top_customers = <<>>
    /\ df_display = NoTable
    /\ df_trends = <<>>
    /\ tpc = "off"
    /\ time_grain = "Daily"
    /\ selected_locations = {}
    /\ df_plot = <<>>
    /\ df_store_perf = <<>>
    /\ whale_store = NoStore
    /\ df_loyalty = <<>>
    /\ lpc = "off"
    /\ aov_diff = NaN
    /\ repeat_diff = NaN
    /\ df_discount = <<>>
    /\ dpc = "off"
    /\ renders = 0
    /\ df_disc = <<>>
    /\ aov_lift = 0
    /\ disc_order_pct = 0
    /\ disc_rev_pct = 0
    /\ screen = {}
    /\ changed = "none"

Next ==
    \/ StartRender
    \/ Load
    \/ Clean
    \/ Section
    \/ Finish
    \/ Advance
    \/ WarehouseRefresh

Spec == Init /\ [][Next]_vars

\* Line 21: the customer table as the loader returns it.
InitIntel ==
    /\ now = 0
    /\ whVer = 0
    /\ cache = EmptyCache
    /\ pc = "idle"
    /\ loaded = NothingLoaded
    /\ queries = NoQueries
    /\ lastLoad = "none"
    /\ cleaned = 0
    /\ sections = {}
    /\ df_intel \in IntelTables
    /\ ipc = "clean"
    /\ top_n = SliderDefault
    /\ df_top_customers = <<>>
    /\ df_display = NoTable
    /\ df_trends = <<>>
    /\ tpc = "off"
    /\ time_grain = "Daily"
    /\ selected_locations = {}
    /\ df_plot = <<>>
    /\ df_store_perf = <<>>
    /\ whale_store = NoStore
    /\ df_loyalty = <<>>
    /\ lpc = "off"
    /\ aov_diff = NaN
    /\ repeat_diff = NaN
    /\ df_discount = <<>>
    /\ dpc = "off"
    /\ renders = 0
    /\ df_disc = <<>>
    /\ aov_lift = 0
    /\ disc_order_pct = 0
    /\ disc_rev_pct = 0
    /\ screen = {}
    /\ changed = "none"

\* Line 32: the location sales table as the loader returns it.
InitTrends ==
    /\ now = 0
    /\ whVer = 0
    /\ cache = EmptyCache
    /\ pc = "idle"
    /\ loaded = NothingLoaded
    /\ queries = NoQueries
    /\ lastLoad = "none"
    /\ cleaned = 0
    /\ sections = {}
    /\ df_intel = <<>>
    /\ ipc = "off"
    /\ top_n = SliderDefault
    /\ df_top_customers = <<>>
    /\ df_display = NoTable
    /\ df_trends \in TrendTables
    /\ tpc = "prepare"
    /\ time_grain = "Daily"
    /\ selected_locations = {}
    /\ df_plot = <<>>
    /\ df_store_perf = <<>>
    /\ whale_store = NoStore
    /\ df_loyalty = <<>>
    /\ lpc = "off"
    /\ aov_diff = NaN
    /\ repeat_diff = NaN
    /\ df_discount = <<>>
    /\ dpc = "off"
    /\ renders = 0
    /\ df_disc = <<>>
    /\ aov_lift = 0
    /\ disc_order_pct = 0
    /\ disc_rev_pct = 0
    /\ screen = {}
    /\ changed = "none"

NextTrends ==
    \/ Prepare
    \/ Plot
    \/ Locations

SpecTrends == InitTrends /\ [][NextTrends]_vars

\* Line 33: the loyalty table as the loader returns it.
InitLoyalty ==
    /\ now = 0
    /\ whVer = 0
    /\ cache = EmptyCache
    /\ pc = "idle"
    /\ loaded = NothingLoaded
    /\ queries = NoQueries
    /\ lastLoad = "none"
    /\ cleaned = 0
    /\ sections = {}
    /\ df_intel = <<>>
    /\ ipc = "off"
    /\ top_n = SliderDefault
    /\ df_top_customers = <<>>
    /\ df_display = NoTable
    /\ df_trends = <<>>
    /\ tpc = "off"
    /\ time_grain = "Daily"
    /\ selected_locations = {}
    /\ df_plot = <<>>
    /\ df_store_perf = <<>>
    /\ whale_store = NoStore
    /\ df_loyalty \in LoyaltyTables
    /\ lpc = "prepare"
    /\ aov_diff = NaN
    /\ repeat_diff = NaN
    /\ df_discount = <<>>
    /\ dpc = "off"
    /\ renders = 0
    /\ df_disc = <<>>
    /\ aov_lift = 0
    /\ disc_order_pct = 0
    /\ disc_rev_pct = 0
    /\ screen = {}
    /\ changed = "none"

NextLoyalty ==
    \/ MapStatus
    \/ Metrics

SpecLoyalty == InitLoyalty /\ [][NextLoyalty]_vars

\* Line 34: the script before the discount table is loaded.
InitDiscount ==
    /\ now = 0
    /\ whVer = 0
    /\ cache = EmptyCache
    /\ pc = "idle"
    /\ loaded = NothingLoaded
    /\ queries = NoQueries
    /\ lastLoad = "none"
    /\ cleaned = 0
    /\ sections = {}
    /\ df_intel = <<>>
    /\ ipc = "off"
    /\ top_n = SliderDefault
    /\ df_top_customers = <<>>
    /\ df_display = NoTable
    /\ df_trends = <<>>
    /\ tpc = "off"
    /\ time_grain = "Daily"
    /\ selected_locations = {}
    /\ df_plot = <<>>
    /\ df_store_perf = <<>>
    /\ whale_store = NoStore
    /\ df_loyalty = <<>>
    /\ lpc = "off"
    /\ aov_diff = NaN
    /\ repeat_diff = NaN
    /\ df_discount = <<>>
    /\ dpc = "load"
    /\ renders = 0
    /\ df_disc = <<>>
    /\ aov_lift = 0
    /\ disc_order_pct = 0
    /\ disc_rev_pct = 0
    /\ screen = {}
    /\ changed = "none"

NextDiscount ==
    \/ LoadDiscount
    \/ DiscountSection
    \/ RenderAgain

SpecDiscount == InitDiscount /\ [][NextDiscount]_vars

\* The renders that follow each other on one page, control changes included.
NextControls ==
    \/ StartRender
    \/ Load
    \/ Clean
    \/ Section
    \/ Finish
    \/ ChangeTopN
    \/ ChangeGrain
    \/ ChangeLocations

SpecControls == Init /\ [][NextControls]_vars

NextIntel ==
    \/ NormalizeIntel
    \/ TopN
    \/ Segments
    \/ GapView

SpecIntel == InitIntel /\ [][NextIntel]_vars

(***************************************************************************)
(* Claims about the cached loader and the render sequence, under Spec.     *)
(***************************************************************************)

\* The step is a call of load_gold_data(t).
IsLoadOf(t) == pc \in LoadPcs /\ LoadTable(pc) = t /\ pc' # pc

\* C1: a call of load_gold_data for a table fetched less than 3600 s earlier
\* returns the previously fetched result, issues no warehouse query and
\* leaves the entry alone; a call made once the 3600 s have elapsed issues
\* exactly one new query and, the warehouse answering, replaces the cached
\* entry by the new result, which it returns.
C1_CacheWindow ==
    [][\A t \in TableNames :
          (IsLoadOf(t) /\ cache[t].valid) =>
             /\ (now - cache[t].at < TTL) =>
                   /\ queries'[t] = queries[t]
                   /\ loaded'[t] = cache[t].ver
                   /\ cache'[t] = cache[t]
                   /\ pc' # "failed"
             /\ (now - cache[t].at >= TTL) =>
                   /\ queries'[t] = queries[t] + 1
                   /\ (pc' # "failed") =>
                         /\ cache'[t] = [valid |-> TRUE, at |-> now, ver |-> whVer]
                         /\ loaded'[t] = whVer
      ]_vars

\* C1's case: in one render the customer table, fetched less than an hour
\* ago, was served from the cache with a result the warehouse no longer
\* holds, and the rolling-metrics table, fetched an hour ago or more, was
\* queried again.
C1_Witness ==
    /\ pc = "load_trends"
    /\ lastLoad = "refresh"
    /\ queries["customer_rolling_metrics"] = 1
    /\ cache["customer_rolling_metrics"].at = now
    /\ queries["customer_intelligence"] = 0
    /\ loaded["customer_intelligence"] = cache["customer_intelligence"].ver
    /\ loaded["customer_intelligence"] # whVer
    /\ now - cache["customer_intelligence"].at < TTL

\* C2: a failed warehouse query ends the render: no table is queried twice in
\* a render (no retry, no fallback), a failed render has rendered none of the
\* seven sections and does nothing more, and a section is only ever rendered
\* with all five tables loaded.
C2_FetchFailureAborts ==
    /\ [](/\ \A t \in TableNames : queries[t] <= 1
          /\ (pc = "failed") => (sections = {} /\ lastLoad = "fail")
          /\ (sections # {}) => (\A t \in TableNames : loaded[t] # NotLoaded))
    /\ [][(pc = "failed") => (pc' \in {"failed", "idle"} /\ sections' = {} /\ cache' = cache)]_vars

\* C2's case: the fourth load fails after three tables were loaded.
C2_Witness ==
    /\ pc = "failed"
    /\ loaded["location_sales_trends"] # NotLoaded
    /\ loaded["loyalty_roi_analysis"] = NotLoaded
    /\ queries["loyalty_roi_analysis"] = 1
    /\ sections = {}

(***************************************************************************)
(* Claims about the customer table's part, under SpecIntel.                *)
(***************************************************************************)
RowSet(df) == {df[i] : i \in 1..Len(df)}
Smaller(a, b) == IF a < b THEN a ELSE b

\* C8: the gap view never fails and the script goes on to the next section;
\* with no customer in the High tier and the Churn Risk segment no table is
\* rendered, and otherwise the table holds exactly the customers in both.
C8_GapView ==
    /\ [](ipc = "s4" =>
            LET gap == {r \in RowSet(df_intel) :
                            r.clv_tier = "High" /\ r.segment = "Churn Risk"}
            IN  /\ (gap = {}) => (df_display = NoTable)
                /\ (gap # {}) =>
                      /\ df_display.shown
                      /\ RowSet(df_display.rows) = gap
                      /\ Len(df_display.rows) = Cardinality(gap))
    /\ [][(ipc = "s3") => (ipc' = "s4")]_vars

\* C8's case: a table with a High-tier customer and a Churn Risk customer but
\* none that is both; the gap view rendered nothing and the script went on.
C8_Witness ==
    /\ ipc = "s4"
    /\ df_display = NoTable
    /\ \E i \in 1..Len(df_intel) : df_intel[i].clv_tier = "High"
    /\ \E i \in 1..Len(df_intel) : df_intel[i].segment = "Churn Risk"

IsNumeral(s) == s # <<>> /\ \A i \in 1..Len(s) : s[i] \in DigitChars
\* A cell that holds no number: a null, or a text that is not a numeral.
HoldsNoNumber(c) == c.k = "null" \/ (c.k = "text" /\ ~IsNumeral(c.s))

\* C10: the normalisation is the first step after the load; from then on, when
\* the sections read them, the numeric columns hold finite floats only, and
\* every value that held no number has become exactly 0.0.
C10_Normalization ==
    /\ [](ipc \in {"s1", "s2", "s3", "s4", "failed"} =>
            \A i \in 1..Len(df_intel) :
                /\ df_intel[i].current_clv.k = "float"
                /\ IsFinite(df_intel[i].current_clv.x)
                /\ df_intel[i].recency.k = "float"
                /\ IsFinite(df_intel[i].recency.x))
    /\ [][(ipc = "clean") =>
            /\ ipc' = "s1"
            /\ \A i \in 1..Len(df_intel) :
                  /\ HoldsNoNumber(df_intel[i].current_clv) =>
                        df_intel'[i].current_clv = FloatCell(Fin(0))
                  /\ HoldsNoNumber(df_intel[i].recency) =>
                        df_intel'[i].recency = FloatCell(Fin(0))]_vars

(***************************************************************************)
(* Claims about the location sales table's part, under SpecTrends.         *)
(***************************************************************************)
RECURSIVE SumOver(_, _)
\* The sum of f over the set S of indices.
SumOver(f, S) ==
    IF S = {} THEN 0
    ELSE LET i == CHOOSE j \in S : TRUE IN f[i] + SumOver(f, S \ {i})

\* A revenue as a whole number of dollars, a missing one counting nothing.
Dollars(x) == IF IsNaN(x) THEN 0 ELSE x.n \div x.d

Plotted == tpc \in {"s5", "s6", "failed"}
RolledUp == tpc \in {"s6", "failed"}

\* The rows of the table whose restaurant is selected.
SelectedRows == {i \in 1..Len(df_trends) : df_trends[i].restaurant_id \in selected_locations}

\* C3: for each grain and each selection the buckets partition the selected
\* rows: there is one plotted row per bucket and restaurant, of selected
\* restaurants only, and the plotted revenue sums to the selected rows' revenue.
C3_Partition ==
    Plotted =>
        /\ \A g, h \in 1..Len(df_plot) :
              (/\ df_plot[g].order_date = df_plot[h].order_date
               /\ df_plot[g].restaurant_id = df_plot[h].restaurant_id) => g = h
        /\ \A g \in 1..Len(df_plot) : df_plot[g].restaurant_id \in selected_locations
        /\ SumOver([g \in 1..Len(df_plot) |-> Dollars(df_plot[g].daily_revenue)],
                   1..Len(df_plot))
           = SumOver([i \in 1..Len(df_trends) |-> Dollars(df_trends[i].daily_revenue)],
                     SelectedRows)

\* C3's case: two selected rows with revenue 1 and 2 in one month, plotted as
\* one bucket of revenue 3.
C3_Witness ==
    /\ tpc = "s5"
    /\ time_grain = "Monthly"
    /\ Cardinality(SelectedRows) = 2
    /\ Len(df_plot) = 1
    /\ Dollars(df_plot[1].daily_revenue) = 3

\* The calendar: the Sunday a day's week ends on, and the last day of its month.
DaysInMonth == <<31, 29, 31, 30>>
WeekEnding(d) == d + ((7 - (d % 7)) % 7)
MonthEnding(d) ==
    LET ends == [m \in 0..4 |-> SumOver(DaysInMonth, 1..m)]
        month == CHOOSE m \in 1..4 : ends[m - 1] < d /\ d <= ends[m]
    IN  ends[month]
CalendarBucket(grain, d) == IF grain = "Weekly" THEN WeekEnding(d) ELSE MonthEnding(d)

\* C4: under Weekly and Monthly a row is plotted under the Sunday its week
\* ends on and the last day of its month, whatever other dates are selected
\* with it.
C4_CalendarBuckets ==
    (Plotted /\ time_grain \in {"Weekly", "Monthly"}) =>
        {<<df_plot[g].order_date, df_plot[g].restaurant_id>> : g \in 1..Len(df_plot)}
        = {<<CalendarBucket(time_grain, df_trends[i].order_date), df_trends[i].restaurant_id>> :
              i \in SelectedRows}

\* C4's case: Monday 29 January and Thursday 1 February, with no other date
\* selected, fall into the week ending Sunday 4 February.
C4_Witness ==
    /\ tpc = "s5"
    /\ time_grain = "Weekly"
    /\ {df_trends[i].order_date : i \in SelectedRows} = {29, 32}
    /\ \A g \in 1..Len(df_plot) : df_plot[g].order_date = 35
    /\ Len(df_plot) = 1

\* C5: for every restaurant of the rollup, avg_daily_revenue times days_active
\* is total_revenue (a restaurant without any revenue figure, whose mean is
\* NaN, left aside).
C5_MeanTimesDays ==
    RolledUp =>
        \A i \in 1..Len(df_store_perf) :
            LET r == df_store_perf[i]
            IN  \/ IsNaN(r.avg_daily_revenue)
                \/ FloatEq(FloatMul(r.avg_daily_revenue, Fin(r.days_active)), r.total_revenue)

\* C6: when the section is rendered, the rollup's avg_order_value is a finite
\* number for every restaurant, a zero denominator included, and so is the
\* one the max-AOV store is rendered with.
C6_AovGuarded ==
    (tpc = "s6") =>
        /\ \A i \in 1..Len(df_store_perf) : IsFinite(df_store_perf[i].avg_order_value)
        /\ IsFinite(whale_store.avg_order_value)

(***************************************************************************)
(* Claims about the loyalty table's part, under SpecLoyalty.               *)
(***************************************************************************)

\* C7: the two lifts rendered in the metric deltas and the insight text are
\* finite numbers, also when the non-member row's avg_order_value or
\* repeat_order_rate is zero.
C7_LiftGuarded ==
    (lpc = "rendered") => (IsFinite(aov_diff) /\ IsFinite(repeat_diff))

\* C13: every row whose is_loyalty is True/False, 'true'/'false' in any
\* letter case, or 1/0 is mapped to exactly one of 'Loyalty Member' and
\* 'Non-Member', the one its value means; and a table with one row of each
\* status has both first-row lookups succeed and the section rendered.
MeansMember(c) ==
    \/ c.k = "bool" /\ c.b
    \/ c.k = "int" /\ c.n = 1
    \/ c.k = "text" /\ c.s \in {"true", "True", "TRUE"}
MeansNonMember(c) ==
    \/ c.k = "bool" /\ ~c.b
    \/ c.k = "int" /\ c.n = 0
    \/ c.k = "text" /\ c.s \in {"false", "False", "FALSE"}
CountStatus(df, status) == Cardinality({i \in 1..Len(df) : df[i].Status = status})
C13_StatusMapping ==
    /\ [][(lpc = "prepare") =>
            \A i \in 1..Len(df_loyalty) :
                /\ MeansMember(df_loyalty[i].is_loyalty)
                      => df_loyalty'[i].Status = "Loyalty Member"
                /\ MeansNonMember(df_loyalty[i].is_loyalty)
                      => df_loyalty'[i].Status = "Non-Member"]_vars
    /\ [][(/\ lpc = "metrics"
            /\ CountStatus(df_loyalty, "Loyalty Member") = 1
            /\ CountStatus(df_loyalty, "Non-Member") = 1) => lpc' = "rendered"]_vars
C13_Witness ==
    /\ lpc = "rendered"
    /\ df_loyalty[1].Status = "Non-Member"
    /\ df_loyalty[2].Status = "Loyalty Member"
    /\ df_loyalty[1].is_loyalty = StrCell("false")
    /\ df_loyalty[2].is_loyalty = StrCell("1")

(***************************************************************************)
(* Claims about the controls, under SpecControls.                          *)
(***************************************************************************)
\* The section whose code reads the control.
DependentSection(c) == IF c = "top_n" THEN "s1" ELSE "s4"

SectionsBefore(p) ==
    IF p \in {"done", "failed", "idle"}
    THEN SectionPcs
    ELSE {t \in SectionPcs : IndexOf(t) < IndexOf(p)}

\* C11 (as stated): the render that a control change starts recomputes only
\* the section that depends on the changed control, and no other section.
C11_DependentOnly ==
    (pc = "done" /\ changed # "none") => sections \subseteq {DependentSection(changed)}

\* C11 (amended): the render that a control change starts runs the script
\* from its first line; it recomputes every section in script order, up to
\* the position it has reached, and all seven once it reaches the end.
C11_FullRerun ==
    (changed # "none") =>
        /\ pc \in (LoadPcs \cup {"clean", "failed"}) => sections = {}
        /\ pc \in (SectionPcs \cup {"done"}) => sections = SectionsBefore(pc)
C11_Witness ==
    /\ pc = "done"
    /\ changed = "time_grain"
    /\ time_grain = "Weekly"
    /\ sections = SectionPcs

(***************************************************************************)
(* Claims about the discount section, under SpecDiscount.                  *)
(***************************************************************************)
\* A percentage rounded to two decimals, in 1/100 of a percent.
Round2(x) == (x + 50) \div 100

IsScenario(df) ==
    /\ Len(df) = 2
    /\ df[1].OrderCount = 9150 /\ df[2].OrderCount = 122178
    /\ df[1].TotalRevenue = Cents(4695684, 17)
    /\ df[2].TotalRevenue = Cents(13343599, 60)

\* C12 (as stated): with order counts 9150 and 122178 and revenues
\* 4,695,684.17 and 13,343,599.60 the computed discount order share is
\* 6.97% and the computed discount revenue share 26.02%, to two decimals.
C12_DiscountShares ==
    (dpc = "done" /\ IsScenario(df_disc)) =>
        (Round2(disc_order_pct) = 697 /\ Round2(disc_rev_pct) = 2602)

\* C12 (amended): with the same counts and revenues the computed discount
\* order share is 6.97% and the computed discount revenue share 26.03%, to
\* two decimals.
C12_DiscountSharesAmended ==
    (dpc = "done" /\ IsScenario(df_disc)) =>
        (Round2(disc_order_pct) = 697 /\ Round2(disc_rev_pct) = 2603)
C12_Witness ==
    /\ dpc = "done"
    /\ IsScenario(df_disc)
    /\ disc_order_pct > 0
    /\ disc_rev_pct > 0

\* C14: the figures of the discount section (the frame behind both charts,
\* the AOV lift, the order share, the revenue share) are the same in any
\* two renders, whatever the discount_effectiveness table loaded for each
\* holds; and the section of a render runs only after that render's load.
Figures == <<df_disc, aov_lift, disc_order_pct, disc_rev_pct>>
C14_TableIgnored ==
    /\ [][(dpc = "s7" /\ dpc' = "done" /\ renders >= 1) => Figures' = Figures]_vars
    /\ [][(dpc' = "s7" /\ dpc # "s7") => dpc = "load"]_vars
C14_Witness ==
    /\ dpc = "done"
    /\ renders = 2
    /\ Len(df_discount) = 2
    /\ df_discount[1].order_count = 100
    /\ df_discount[2].total_revenue = 0
    /\ IsScenario(df_disc)

====
